---- MODULE Spec2Model ----
(***************************************************************************)
(* Model of src/scripts/input_processing.py: the input-processing script   *)
(* of the Disease Cluster Analysis Data Export.  The script is one         *)
(* sequential pass: load params.json, normalise and write params.csv,      *)
(* load sample.ndJson, normalise every sample in place, write sample.csv,  *)
(* exit.  JSON values are encoded with a uniform shape per field:          *)
(*   - a scalar is a string; Absent marks a key that is not in a mapping,  *)
(*     None is Python's None / JSON null;                                  *)
(*   - a text whose characters matter (dates, season years) is a sequence  *)
(*     of one-character strings;                                           *)
(*   - a nested value is a record [kind, ...] whose kind says what JSON    *)
(*     type the input carried there.                                       *)
(***************************************************************************)
EXTENDS Integers, Sequences, FiniteSets, TLC

VARIABLES
  pc,            \* position of the script
  paramsFile,    \* params.json on disk: [status, content]
  sampleFile,    \* sample.ndJson on disk: [status, content]
  params,        \* the in-memory parameter mapping
  providerArea,  \* provider_admin_area, as read on line 239
  samples,       \* the in-memory sample batch
  idx,           \* index of the sample the loop handles next
  paramsCsv,     \* params.csv: [written, row]
  sampleCsv,     \* sample.csv: [written, rows]
  htmlLog,       \* info.html, one entry per model_log_html call
  execLog,       \* execution_log.log, one entry per logging call
  exitCode,      \* process exit status, meaningful once pc = "exit"
  trace          \* the order in which loads, mutations and writes happened

vars == <<pc, paramsFile, sampleFile, params, providerArea, samples, idx,
          paramsCsv, sampleCsv, htmlLog, execLog, exitCode, trace>>

\* ------------------------------------------------------------------ bounds
MaxBatch == 2     \* records in a batch of the run-level inputs
MaxSeasons == 2   \* entries of a season_year list
MaxTests == 2     \* entries of a tests list
MaxCoords == 3    \* elements of a coordinates array

\* ----------------------------------------------------------------- scalars
Absent == "<absent>"      \* the key is not in the mapping
None == "None"            \* Python None, JSON null
JTrue == "json:true"
JFalse == "json:false"
JOne == "json:1"

RECURSIVE SeqsUpTo(_, _)
SeqsUpTo(S, n) ==
  IF n = 0 THEN {<<>>}
  ELSE LET shorter == SeqsUpTo(S, n - 1)
       IN  shorter \cup {Append(q, x) : q \in {r \in shorter : Len(r) = n - 1}, x \in S}

\* ------------------------------------------------------------ exceptions
NoExc == "none"
KeyError == "KeyError"
TypeError == "TypeError"
IndexError == "IndexError"
ValueError == "ValueError"

\* ------------------------------------------------- date_harvested (l. 312-318)
\* datetime.strptime(s, '%Y-%m-%dT%H:%M:%S.%fZ'): the format compiles to a
\* case-insensitive regular expression that must match the whole text,
\*   %Y \d\d\d\d     %m 1[0-2]|0[1-9]|[1-9]    %d 3[01]|[12]\d|0[1-9]|[1-9]| [1-9]
\*   %H 2[0-3]|[0-1]\d|\d    %M [0-5]\d|\d    %S 6[0-1]|[0-5]\d|\d    %f [0-9]{1,6}
\* and the fields found must then make a valid datetime.
DigitSeq == <<"0", "1", "2", "3", "4", "5", "6", "7", "8", "9">>
IsDigit(c) == \E n \in DOMAIN DigitSeq : DigitSeq[n] = c
DigitVal(c) == (CHOOSE n \in DOMAIN DigitSeq : DigitSeq[n] = c) - 1

AllDigits(s, from, len) == \A k \in from..(from + len - 1) : IsDigit(s[k])

RECURSIVE NumVal(_, _, _)
NumVal(s, from, len) ==
  IF len = 0 THEN 0
  ELSE 10 * NumVal(s, from, len - 1) + DigitVal(s[from + len - 1])

\* a field of one or two digits whose value lies in lo..hi
DigitField(s, from, len, lo, hi) ==
  /\ AllDigits(s, from, len)
  /\ NumVal(s, from, len) \in lo..hi

\* %d also accepts a blank followed by one digit 1-9
DayField(s, from, len) ==
  \/ DigitField(s, from, len, 1, 31)
  \/ /\ len = 2
     /\ s[from] = " "
     /\ IsDigit(s[from + 1])
     /\ DigitVal(s[from + 1]) >= 1

DayVal(s, from, len) ==
  IF s[from] = " " THEN DigitVal(s[from + 1]) ELSE NumVal(s, from, len)

\* the field widths <<m, d, H, M, S, f>> under which the text matches the format
FormatSplits(s) ==
  {w \in (1..2) \X (1..2) \X (1..2) \X (1..2) \X (1..2) \X (1..6) :
     LET pm == 6
         pd == pm + w[1] + 1
         pH == pd + w[2] + 1
         pM == pH + w[3] + 1
         pS == pM + w[4] + 1
         pf == pS + w[5] + 1
     IN  /\ Len(s) = pf + w[6]
         /\ AllDigits(s, 1, 4)
         /\ s[5] = "-"
         /\ DigitField(s, pm, w[1], 1, 12)
         /\ s[pd - 1] = "-"
         /\ DayField(s, pd, w[2])
         /\ s[pH - 1] \in {"T", "t"}
         /\ DigitField(s, pH, w[3], 0, 23)
         /\ s[pM - 1] = ":"
         /\ DigitField(s, pM, w[4], 0, 59)
         /\ s[pS - 1] = ":"
         /\ DigitField(s, pS, w[5], 0, 61)
         /\ s[pf - 1] = "."
         /\ AllDigits(s, pf, w[6])
         /\ s[pf + w[6]] \in {"Z", "z"}}

IsLeap(y) == (y % 4 = 0 /\ y % 100 # 0) \/ y % 400 = 0

DaysInMonth(y, m) ==
  IF m = 2 THEN (IF IsLeap(y) THEN 29 ELSE 28)
  ELSE IF m \in {4, 6, 9, 11} THEN 30 ELSE 31

\* the outcome of strptime: the exception raised, or the date parsed
Strptime(s) ==
  LET splits == FormatSplits(s)
  IN  IF splits = {} THEN [exc |-> ValueError, y |-> 0, m |-> 0, d |-> 0]
      ELSE LET w == CHOOSE x \in splits : TRUE
               y == NumVal(s, 1, 4)
               m == NumVal(s, 6, w[1])
               d == DayVal(s, 7 + w[1], w[2])
               sec == NumVal(s, 10 + w[1] + w[2] + w[3] + w[4], w[5])
           IN  IF y < 1 \/ d > DaysInMonth(y, m) \/ sec > 59
               THEN [exc |-> ValueError, y |-> y, m |-> m, d |-> d]
               ELSE [exc |-> NoExc, y |-> y, m |-> m, d |-> d]

Pad2(n) == <<DigitSeq[(n \div 10) + 1], DigitSeq[(n % 10) + 1]>>

\* strftime('%Y-%m-%d'), for the years 1000..9999 the model draws
Strftime(y, m, d) ==
  Pad2(y \div 100) \o Pad2(y % 100) \o <<"-">> \o Pad2(m) \o <<"-">> \o Pad2(d)

\* a text that does not parse is blanked instead of kept
ReformatDateBlanking(s) ==
  LET r == Strptime(s)
  IN  IF r.exc = ValueError THEN <<>> ELSE Strftime(r.y, r.m, r.d)

\* line 315 with its except clause (l. 316-317): the text the field holds afterwards
ReformatDate(s) ==
  LET r == Strptime(s)
  IN  IF r.exc = ValueError THEN s ELSE Strftime(r.y, r.m, r.d)

\* ------------------------------------------------------- the sample mapping
\* One sample mapping holds the keys the loop reads (_id, _sub_administrative_area,
\* tests, lat_lng) and the eleven keys it exports.
AbsentDate == [kind |-> "absent", chars |-> <<>>]
NoneDate == [kind |-> "null", chars |-> <<>>]
NoSubArea == [kind |-> "absent", _id |-> Absent]
NoTests == [kind |-> "absent", items |-> <<>>]
NoCoordinates == [kind |-> "absent", items |-> <<>>]
NoProperties == [kind |-> "absent", geolocation_precision |-> Absent]
NoGeometry == [kind |-> "absent", coordinates |-> NoCoordinates]
NoLatLng == [kind |-> "absent", properties |-> NoProperties, geometry |-> NoGeometry]

\* lines 285-297
needed_keys_with_defaults ==
  [id |-> None, sub_administrative_area_id |-> None, season_year |-> None,
   species |-> None, age_group |-> None, sex |-> None, date_harvested |-> NoneDate,
   result |-> None, geolocation_precision |-> None, latitude |-> None,
   longitude |-> None]

\* key not in original_dict
KeyMissing(dict, key) ==
  IF key = "date_harvested" THEN dict[key].kind = "absent" ELSE dict[key] = Absent

\* lines 147-159
add_missing_defaults_inplace(original_dict, default_values) ==
  [key \in DOMAIN original_dict |->
     IF key \in DOMAIN default_values /\ KeyMissing(original_dict, key)
     THEN default_values[key]
     ELSE original_dict[key]]

\* a step of the loop body: the mapping it leaves and the exception it lets out
Ok(sample) == [s |-> sample, exc |-> NoExc]
Raise(sample, e) == [s |-> sample, exc |-> e]

\* lines 300-304: sample['id'] = sample['_id']
IdExc(sample) == IF sample._id = Absent THEN KeyError ELSE NoExc

IdHandled == {KeyError, TypeError}

SetId(sample) ==
  LET e == IdExc(sample)
  IN  IF e = NoExc THEN Ok([sample EXCEPT !.id = sample._id])
      ELSE IF e \in IdHandled THEN Ok(sample)
      ELSE Raise(sample, e)

\* lines 306-310: sample['_sub_administrative_area']['_id']
SubAreaExc(sample) ==
  LET a == sample._sub_administrative_area
  IN  IF a.kind = "absent" THEN KeyError
      ELSE IF a.kind # "obj" THEN TypeError
      ELSE IF a._id = Absent THEN KeyError
      ELSE NoExc

SubAreaHandled == {KeyError, TypeError}

SetSubArea(sample) ==
  LET e == SubAreaExc(sample)
  IN  IF e = NoExc
      THEN Ok([sample EXCEPT !.sub_administrative_area_id = sample._sub_administrative_area._id])
      ELSE IF e \in SubAreaHandled THEN Ok(sample)
      ELSE Raise(sample, e)

\* lines 312-318
SetDateHarvested(sample) ==
  IF sample.date_harvested.kind # "absent" /\ sample.date_harvested.kind = "str"
  THEN Ok([sample EXCEPT !.date_harvested.chars = ReformatDate(@)])
  ELSE Ok(sample)

\* line 321: len(sample['tests']) raises on a value that has no length
TestsLenExc(tests) == IF tests.kind \in {"null", "num"} THEN TypeError ELSE NoExc

\* line 324, one entry of the comprehension:
\*   "selected_definitive" in test and test["selected_definitive"] == True
\* `in` raises on a value that is not iterable; on a text it is a substring test,
\* and indexing that text by a key then raises.
FlagName == "selected_definitive"

EntryExc(test) ==
  IF test.kind \in {"null", "num"} THEN TypeError
  ELSE IF test.kind = "str" /\ test.text = FlagName THEN TypeError
  ELSE NoExc

\* 1 == True in Python
EqualsTrue(v) == v \in {JTrue, JOne}

IsSelected(test) ==
  /\ test.kind = "obj"
  /\ test.selected_definitive # Absent
  /\ EqualsTrue(test.selected_definitive)

tests_selected_definitive(tests) == SelectSeq(tests.items, IsSelected)

\* line 328: tests_selected_definitive[0]["result"]
ResultExc(test) == IF test.result = Absent THEN KeyError ELSE NoExc

ResultHandled == {KeyError, TypeError, ValueError}

\* lines 320-334
SetResult(sample) ==
  LET tests == sample.tests
  IN  IF tests.kind = "absent" THEN Ok([sample EXCEPT !.result = None])
      ELSE IF TestsLenExc(tests) # NoExc THEN Raise(sample, TestsLenExc(tests))
      ELSE IF Len(tests.items) = 0 THEN Ok([sample EXCEPT !.result = None])
      ELSE IF \E k \in DOMAIN tests.items : EntryExc(tests.items[k]) # NoExc
      THEN Raise(sample, TypeError)
      ELSE LET sel == tests_selected_definitive(tests)
           IN  IF Len(sel) = 1
               THEN LET e == ResultExc(sel[1])
                    IN  IF e = NoExc THEN Ok([sample EXCEPT !.result = sel[1].result])
                        ELSE IF e \in ResultHandled THEN Ok(sample)
                        ELSE Raise(sample, e)
               ELSE Ok([sample EXCEPT !.result = None])

\* line 339: sample["lat_lng"]['properties']['geolocation_precision']
PrecisionExc(ll) ==
  IF ll.kind # "obj" THEN TypeError
  ELSE IF ll.properties.kind = "absent" THEN KeyError
  ELSE IF ll.properties.kind # "obj" THEN TypeError
  ELSE IF ll.properties.geolocation_precision = Absent THEN KeyError
  ELSE NoExc

\* lines 343-344: sample["lat_lng"]["geometry"]["coordinates"][i], i = 0 or 1
CoordExc(ll, i) ==
  IF ll.kind # "obj" THEN TypeError
  ELSE IF ll.geometry.kind = "absent" THEN KeyError
  ELSE IF ll.geometry.kind # "obj" THEN TypeError
  ELSE LET c == ll.geometry.coordinates
       IN  IF c.kind = "absent" THEN KeyError
           ELSE IF c.kind \in {"null", "num"} THEN TypeError
           ELSE IF c.kind = "obj" THEN KeyError
           ELSE IF i >= Len(c.items) THEN IndexError
           ELSE NoExc

CoordVal(ll, i) == ll.geometry.coordinates.items[i + 1]

GeoHandled == {KeyError, TypeError}

\* lines 338-341
SetPrecision(sample) ==
  LET e == PrecisionExc(sample.lat_lng)
  IN  IF e = NoExc
      THEN Ok([sample EXCEPT !.geolocation_precision =
                               sample.lat_lng.properties.geolocation_precision])
      ELSE IF e \in GeoHandled THEN Ok([sample EXCEPT !.geolocation_precision = None])
      ELSE Raise(sample, e)

\* lines 342-347: longitude is assigned before latitude is read
SetCoordinates(sample) ==
  LET ll == sample.lat_lng
      e0 == CoordExc(ll, 0)
      e1 == CoordExc(ll, 1)
      cleared == [sample EXCEPT !.longitude = None, !.latitude = None]
  IN  IF e0 # NoExc
      THEN (IF e0 \in GeoHandled THEN Ok(cleared) ELSE Raise(sample, e0))
      ELSE LET withLng == [sample EXCEPT !.longitude = CoordVal(ll, 0)]
           IN  IF e1 = NoExc THEN Ok([withLng EXCEPT !.latitude = CoordVal(ll, 1)])
               ELSE IF e1 \in GeoHandled
               THEN Ok([withLng EXCEPT !.longitude = None, !.latitude = None])
               ELSE Raise(withLng, e1)

\* a statement of the loop body runs only if none before it let an exception out
ThenCoordinates(r) == IF r.exc # NoExc THEN r ELSE SetCoordinates(r.s)

\* lines 336-347
SetGeolocation(sample) ==
  IF sample.lat_lng.kind = "absent" THEN Ok(sample)
  ELSE ThenCoordinates(SetPrecision(sample))

ThenSubArea(r) == IF r.exc # NoExc THEN r ELSE SetSubArea(r.s)
ThenDateHarvested(r) == IF r.exc # NoExc THEN r ELSE SetDateHarvested(r.s)
ThenResult(r) == IF r.exc # NoExc THEN r ELSE SetResult(r.s)
ThenGeolocation(r) == IF r.exc # NoExc THEN r ELSE SetGeolocation(r.s)

\* lines 282-347: one pass of the loop body over one sample
NormalizeSample(sample) ==
  ThenGeolocation(ThenResult(ThenDateHarvested(ThenSubArea(
    SetId(add_missing_defaults_inplace(sample, needed_keys_with_defaults))))))

\* lines 350-368: csv.DictWriter keeps the declared columns and writes None as
\* the empty text
Empty == ""
CsvCell(v) == IF v = None THEN Empty ELSE v
CsvDateCell(d) == IF d.kind = "null" THEN [kind |-> "str", chars |-> <<>>] ELSE d

SampleRow(sample) ==
  [id |-> CsvCell(sample.id),
   sub_administrative_area_id |-> CsvCell(sample.sub_administrative_area_id),
   season_year |-> CsvCell(sample.season_year),
   species |-> CsvCell(sample.species),
   age_group |-> CsvCell(sample.age_group),
   sex |-> CsvCell(sample.sex),
   date_harvested |-> CsvDateCell(sample.date_harvested),
   result |-> CsvCell(sample.result),
   geolocation_precision |-> CsvCell(sample.geolocation_precision),
   latitude |-> CsvCell(sample.latitude),
   longitude |-> CsvCell(sample.longitude)]

\* --------------------------------------------------- the parameter mapping
NoArea == [kind |-> "absent", administrative_area |-> Absent]
NoProvider == [kind |-> "absent", _administrative_area |-> NoArea]
NoSeasonYear == [kind |-> "absent", items |-> <<>>]
Text(chars) == [kind |-> "str", chars |-> chars]
\* a text value of season_year: one item holding its characters
TextValue(chars) == [kind |-> "str", items |-> <<Text(chars)>>]

\* before json.load the script holds no parameter mapping
NoParams ==
  [_provider |-> NoProvider, season_year |-> NoSeasonYear, species |-> Absent,
   sex |-> Absent]

\* line 239: params['_provider']['_administrative_area']['administrative_area']
ProviderExc(p) ==
  IF p._provider.kind = "absent" THEN KeyError
  ELSE IF p._provider.kind # "obj" THEN TypeError
  ELSE IF p._provider._administrative_area.kind = "absent" THEN KeyError
  ELSE IF p._provider._administrative_area.kind # "obj" THEN TypeError
  ELSE IF p._provider._administrative_area.administrative_area = Absent THEN KeyError
  ELSE NoExc

\* the provider sub-object is left in the mapping
ProviderKept(p) == p

\* line 241: del(params['_provider'])
RemoveProvider(p) == [p EXCEPT !._provider = NoProvider]

\* str.join iterates its argument: the items of a list, the characters of a text
JoinParts(sy) ==
  IF sy.kind = "str"
  THEN [k \in 1..Len(sy.items[1].chars) |-> Text(<<sy.items[1].chars[k]>>)]
  ELSE sy.items

JoinExc(sy) ==
  IF sy.kind \in {"null", "num"} THEN TypeError
  ELSE IF \E k \in DOMAIN JoinParts(sy) : JoinParts(sy)[k].kind # "str" THEN TypeError
  ELSE NoExc

Separator == <<",", " ">>

RECURSIVE Join(_, _)
Join(sep, parts) ==
  IF Len(parts) = 0 THEN <<>>
  ELSE IF Len(parts) = 1 THEN parts[1].chars
  ELSE parts[1].chars \o sep \o Join(sep, Tail(parts))

\* line 245 is reached only when the key is present (l. 244)
JoinRaises(p) == p.season_year.kind # "absent" /\ JoinExc(p.season_year) # NoExc

\* lines 244-245
MergeSeasonYear(p) ==
  IF p.season_year.kind # "absent"
  THEN [p EXCEPT !.season_year = TextValue(Join(Separator, JoinParts(p.season_year)))]
  ELSE p

\* line 249: field_names = params.keys()
Keys(p) ==
  {k \in DOMAIN p :
     IF k \in {"_provider", "season_year"} THEN p[k].kind # "absent" ELSE p[k] # Absent}

\* lines 248-256: the single row of params.csv
ParamsRow(p) == [p EXCEPT !.species = CsvCell(@), !.sex = CsvCell(@)]

\* --------------------------------------------------------- report and log
Html(el, line, arg) == [el |-> el, line |-> line, arg |-> arg]
Log(level, msg) == [level |-> level, msg |-> msg]

\* lines 212-221
InitialHtml ==
  <<Html("h3", "Model Execution Summary", ""),
    Html("p", "Model: Disease Cluster Analysis Data Export", ""),
    Html("p", "Date: ", "")>>

InitialLog ==
  <<Log("INFO", "Model: Disease Cluster Analysis Data Export"),
    Log("INFO", "Date: "),
    Log("INFO", "This log records data for debugging purposes in the case of a model execution error.")>>

\* lines 199-210: sys.excepthook writes the traceback to the execution log only
handle_uncaught_exception(log) == Append(log, Log("ERROR", "Uncaught exception:"))

\* ------------------------------------------------------------------ inputs
\* params.json
Provider(area) ==
  [kind |-> "obj", _administrative_area |-> [kind |-> "obj", administrative_area |-> area]]

ProviderInputs ==
  {NoProvider, [kind |-> "obj", _administrative_area |-> NoArea], Provider("Region X")}

SeasonTexts == {Text(<<"2", "0", "2", "1">>), Text(<<"2", "0", "2", "2">>)}
NumberItem == [kind |-> "num", chars |-> <<>>]

SeasonYearInputs ==
  {NoSeasonYear, [kind |-> "null", items |-> <<>>], [kind |-> "num", items |-> <<>>],
   TextValue(<<"2", "0", "2", "1">>),
   [kind |-> "list", items |-> <<Text(<<"2", "0", "2", "1">>), NumberItem>>]}
  \cup {[kind |-> "list", items |-> q] : q \in SeqsUpTo(SeasonTexts, MaxSeasons)}

ParamsInputs ==
  {[_provider |-> pr, season_year |-> sy, species |-> sp, sex |-> Absent] :
     pr \in ProviderInputs, sy \in SeasonYearInputs, sp \in {Absent, None, "deer"}}

GoodParams ==
  [_provider |-> Provider("Region X"),
   season_year |-> [kind |-> "list",
                    items |-> <<Text(<<"2", "0", "2", "1">>), Text(<<"2", "0", "2", "2">>)>>],
   species |-> "deer", sex |-> "F"]

ParamsFileInputs ==
  {[status |-> "missing", content |-> NoParams], [status |-> "invalid", content |-> NoParams]}
  \cup {[status |-> "ok", content |-> p] : p \in ParamsInputs}

\* sample.ndJson: one record per line
BaseSample ==
  [_id |-> Absent, id |-> Absent, _sub_administrative_area |-> NoSubArea,
   sub_administrative_area_id |-> Absent, season_year |-> Absent, species |-> Absent,
   age_group |-> Absent, sex |-> Absent, date_harvested |-> AbsentDate,
   result |-> Absent, tests |-> NoTests, lat_lng |-> NoLatLng,
   geolocation_precision |-> Absent, latitude |-> Absent, longitude |-> Absent]

SubAreaInputs ==
  {NoSubArea, [kind |-> "null", _id |-> Absent], [kind |-> "str", _id |-> Absent],
   [kind |-> "obj", _id |-> Absent], [kind |-> "obj", _id |-> None],
   [kind |-> "obj", _id |-> "A-7"]}

IdInputs ==
  {[BaseSample EXCEPT !._id = a, !.id = b, !._sub_administrative_area = c,
                      !.sub_administrative_area_id = d] :
     a \in {Absent, None, "S-1"}, b \in {Absent, "own-id"},
     c \in SubAreaInputs, d \in {Absent, "own-sub"}}

PassThroughInputs ==
  {[BaseSample EXCEPT !.season_year = a, !.species = b, !.age_group = c, !.sex = d] :
     a \in {Absent, "2021"}, b \in {Absent, "deer"}, c \in {Absent, None},
     d \in {Absent, "F"}}

Years == {<<"2", "0", "2", "3">>, <<"2", "0", "2", "4">>, <<"0", "0", "0", "0">>}
Months == {<<"0", "5">>, <<"5">>, <<"0", "2">>, <<"1", "3">>}
Days == {<<"0", "1">>, <<"1">>, <<" ", "1">>, <<"2", "9">>, <<"3", "0">>}
Times ==
  {<<"T", "0", "0", ":", "0", "0", ":", "0", "0">>, <<"T", "0", ":", "0", ":", "0">>,
   <<"t", "2", "3", ":", "5", "9", ":", "5", "9">>,
   <<"T", "0", "0", ":", "0", "0", ":", "6", "0">>, <<>>}
Fractions ==
  {<<".", "0", "0", "0", "0", "0", "0">>, <<".", "0", "0", "0">>, <<>>,
   <<".", "0", "0", "0", "0", "0", "0", "0">>}
Zones == {<<"Z">>, <<>>}

DateTexts ==
  {y \o <<"-">> \o m \o <<"-">> \o d \o tm \o f \o z :
     y \in Years, m \in Months, d \in Days, tm \in Times, f \in Fractions, z \in Zones}

DateInputs ==
  {[BaseSample EXCEPT !.date_harvested = [kind |-> k, chars |-> <<>>]] : k \in {"null", "num"}}
  \cup {[BaseSample EXCEPT !.date_harvested = [kind |-> "str", chars |-> s]] : s \in DateTexts}

ObjEntry(flag, res) ==
  [kind |-> "obj", text |-> "", selected_definitive |-> flag, result |-> res]
OtherEntry(kind, text) ==
  [kind |-> kind, text |-> text, selected_definitive |-> Absent, result |-> Absent]

TestEntries ==
  {ObjEntry(flag, res) : flag \in {Absent, JTrue, JFalse, JOne},
                         res \in {Absent, None, "Positive"}}
  \cup {OtherEntry("null", ""), OtherEntry("str", "abc"), OtherEntry("str", FlagName)}

TestsValues ==
  {NoTests, [kind |-> "null", items |-> <<>>], [kind |-> "num", items |-> <<>>],
   [kind |-> "obj", items |-> <<>>],
   [kind |-> "str", items |-> <<OtherEntry("str", "a"), OtherEntry("str", "b")>>]}
  \cup {[kind |-> "list", items |-> q] : q \in SeqsUpTo(TestEntries, MaxTests)}

TestsInputs ==
  {[BaseSample EXCEPT !.tests = ts, !.result = own] :
     ts \in TestsValues, own \in {Absent, "own-result"}}

CoordinateValues ==
  {NoCoordinates, [kind |-> "null", items |-> <<>>], [kind |-> "num", items |-> <<>>],
   [kind |-> "obj", items |-> <<>>], [kind |-> "str", items |-> <<"a">>],
   [kind |-> "str", items |-> <<"a", "b">>]}
  \cup {[kind |-> "list", items |-> q] :
          q \in SeqsUpTo({None, "-76.5", "42.4"}, MaxCoords)}

GeometryValues ==
  {NoGeometry, [kind |-> "null", coordinates |-> NoCoordinates]}
  \cup {[kind |-> "obj", coordinates |-> c] : c \in CoordinateValues}

PropertiesValues ==
  {NoProperties, [kind |-> "null", geolocation_precision |-> Absent],
   [kind |-> "obj", geolocation_precision |-> Absent],
   [kind |-> "obj", geolocation_precision |-> "GPS"]}

LatLngValues ==
  {NoLatLng, [kind |-> "null", properties |-> NoProperties, geometry |-> NoGeometry],
   [kind |-> "num", properties |-> NoProperties, geometry |-> NoGeometry]}
  \cup {[kind |-> "obj", properties |-> pr, geometry |-> g] :
          pr \in PropertiesValues, g \in GeometryValues}

GeoInputs ==
  {[BaseSample EXCEPT !.lat_lng = ll, !.geolocation_precision = a, !.latitude = b,
                      !.longitude = c] :
     ll \in LatLngValues, a \in {Absent, "own-precision"}, b \in {Absent, "own-lat"},
     c \in {Absent, "own-lng"}}

\* every shape of one record
RecordInputs == IdInputs \cup PassThroughInputs \cup DateInputs \cup TestsInputs \cup GeoInputs

\* the records of the longer batches
GoodSample ==
  [BaseSample EXCEPT
     !._id = "S-1", !._sub_administrative_area = [kind |-> "obj", _id |-> "A-7"],
     !.species = "deer",
     !.date_harvested = [kind |-> "str",
                         chars |-> <<"2", "0", "2", "3", "-", "0", "5", "-", "0", "1",
                                     "T", "0", "0", ":", "0", "0", ":", "0", "0", ".",
                                     "0", "0", "0", "0", "0", "0", "Z">>],
     !.tests = [kind |-> "list", items |-> <<ObjEntry(JTrue, "Positive")>>],
     !.lat_lng = [kind |-> "obj",
                  properties |-> [kind |-> "obj", geolocation_precision |-> "GPS"],
                  geometry |-> [kind |-> "obj",
                                coordinates |-> [kind |-> "list",
                                                 items |-> <<"-76.5", "42.4">>]]]]

NullTestsSample == [BaseSample EXCEPT !._id = "S-2", !.tests = [kind |-> "null", items |-> <<>>]]

ShortCoordinatesSample ==
  [BaseSample EXCEPT
     !._id = "S-3",
     !.lat_lng = [kind |-> "obj", properties |-> NoProperties,
                  geometry |-> [kind |-> "obj",
                                coordinates |-> [kind |-> "list", items |-> <<"-76.5">>]]]]

RunRecords == {BaseSample, GoodSample, NullTestsSample, ShortCoordinatesSample}

SampleFileInputs ==
  {[status |-> "missing", content |-> <<>>], [status |-> "invalid", content |-> <<>>]}
  \cup {[status |-> "ok", content |-> b] : b \in SeqsUpTo(RunRecords, MaxBatch)}

\* ---------------------------------------------------------------- the run
NoRow == [written |-> FALSE, row |-> NoParams]
NoRows == [written |-> FALSE, rows |-> <<>>]

InitWith(pf, sf) ==
  /\ pc = "load_params"
  /\ paramsFile = pf
  /\ sampleFile = sf
  /\ params = NoParams
  /\ providerArea = Absent
  /\ samples = <<>>
  /\ idx = 1
  /\ paramsCsv = NoRow
  /\ sampleCsv = NoRows
  /\ htmlLog = InitialHtml
  /\ execLog = InitialLog
  /\ exitCode = 0
  /\ trace = <<>>

\* the run over every parameter file and the batches of up to MaxBatch records,
\* and over every shape of a record as a batch of one
Init ==
  \/ \E pf \in ParamsFileInputs, sf \in SampleFileInputs : InitWith(pf, sf)
  \/ \E r \in RecordInputs :
       InitWith([status |-> "ok", content |-> GoodParams],
                [status |-> "ok", content |-> <<r>>])

\* the order of the script's steps: the statement control reaches when the step
\* at `at` completes (the loop at "loop" is left through WriteSamples)
SamplesLoadedFirst(at) ==
  CASE at = "load_params" -> "load_samples"
    [] at = "load_samples" -> "provider"
    [] at = "provider" -> "season_year"
    [] at = "season_year" -> "write_params"
    [] at = "write_params" -> "loop"

Successor(at) ==
  CASE at = "load_params" -> "provider"
    [] at = "provider" -> "season_year"
    [] at = "season_year" -> "write_params"
    [] at = "write_params" -> "load_samples"
    [] at = "load_samples" -> "loop"

\* an exception no except clause takes: sys.excepthook logs it, the interpreter
\* ends with status 1
Uncaught ==
  /\ execLog' = handle_uncaught_exception(execLog)
  /\ pc' = "exit"
  /\ exitCode' = 1

\* the status is dropped: every exit reports success
ExitAlwaysZero(code) ==
  /\ pc' = "exit"
  /\ exitCode' = 0

\* sys.exit(code)
Exit(code) ==
  /\ pc' = "exit"
  /\ exitCode' = code

\* lines 226-236
LoadParams ==
  /\ pc = "load_params"
  /\ \/ /\ paramsFile.status = "ok"
        /\ params' = paramsFile.content
        /\ execLog' = Append(execLog, Log("INFO", "Parameter file loaded successfully"))
        /\ pc' = Successor(pc)
        /\ trace' = Append(trace, "load_params")
        /\ UNCHANGED <<htmlLog, exitCode>>
     \/ /\ paramsFile.status = "missing"
        /\ execLog' = Append(execLog, Log("ERROR", "params.json File does not exist."))
        /\ htmlLog' = htmlLog \o <<Html("h4", "ERROR", ""),
                                   Html("p", "Parameters (params.json) file not found.", "")>>
        /\ Exit(1)
        /\ UNCHANGED <<params, trace>>
     \/ /\ paramsFile.status = "invalid"
        /\ Uncaught
        /\ UNCHANGED <<params, htmlLog, trace>>
  /\ UNCHANGED <<paramsFile, sampleFile, providerArea, samples, idx, paramsCsv, sampleCsv>>

\* lines 238-241
GetProvider ==
  /\ pc = "provider"
  /\ \/ /\ ProviderExc(params) = NoExc
        /\ providerArea' = params._provider._administrative_area.administrative_area
        /\ params' = RemoveProvider(params)
        /\ pc' = Successor(pc)
        /\ trace' = Append(trace, "del_provider")
        /\ UNCHANGED <<execLog, exitCode>>
     \/ /\ ProviderExc(params) # NoExc
        /\ Uncaught
        /\ UNCHANGED <<providerArea, params, trace>>
  /\ UNCHANGED <<paramsFile, sampleFile, samples, idx, paramsCsv, sampleCsv, htmlLog>>

\* lines 243-245
JoinSeasonYear ==
  /\ pc = "season_year"
  /\ \/ /\ ~JoinRaises(params)
        /\ params' = MergeSeasonYear(params)
        /\ pc' = Successor(pc)
        /\ trace' = Append(trace, "join_season_year")
        /\ UNCHANGED <<execLog, exitCode>>
     \/ /\ JoinRaises(params)
        /\ Uncaught
        /\ UNCHANGED <<params, trace>>
  /\ UNCHANGED <<paramsFile, sampleFile, providerArea, samples, idx, paramsCsv,
                 sampleCsv, htmlLog>>

\* lines 247-261
WriteParams ==
  /\ pc = "write_params"
  /\ paramsCsv' = [written |-> TRUE, row |-> ParamsRow(params)]
  /\ htmlLog' = htmlLog \o <<Html("p", "Provider area: ", providerArea),
                             Html("h4", "User provided parameters", ""),
                             Html("p", "params", "")>>
  /\ pc' = Successor(pc)
  /\ trace' = Append(trace, "write_params")
  /\ UNCHANGED <<paramsFile, sampleFile, params, providerArea, samples, idx, sampleCsv,
                 execLog, exitCode>>

\* lines 266-279
LoadSamples ==
  /\ pc = "load_samples"
  /\ \/ /\ sampleFile.status = "ok"
        /\ samples' = sampleFile.content
        /\ execLog' = Append(execLog, Log("INFO", "Sample file loaded successfully"))
        /\ htmlLog' = htmlLog \o <<Html("h4", "Warehouse data provided to model", ""),
                                   Html("p", "Samples: ", "")>>
        /\ pc' = Successor(pc)
        /\ trace' = Append(trace, "load_samples")
        /\ UNCHANGED exitCode
     \/ /\ sampleFile.status = "missing"
        /\ execLog' = Append(execLog, Log("ERROR", "sample.ndJson file does not exist."))
        /\ htmlLog' = htmlLog \o <<Html("h4", "ERROR", ""),
                                   Html("p", "Samples (sample.ndJson) file not found.", "")>>
        /\ Exit(1)
        /\ UNCHANGED <<samples, trace>>
     \/ /\ sampleFile.status = "invalid"
        /\ Uncaught
        /\ UNCHANGED <<samples, htmlLog, trace>>
  /\ UNCHANGED <<paramsFile, sampleFile, params, providerArea, idx, paramsCsv, sampleCsv>>

\* lines 282-347, one iteration of `for sample in samples`
ProcessSample ==
  /\ pc = "loop"
  /\ idx <= Len(samples)
  /\ LET r == NormalizeSample(samples[idx])
     IN  /\ samples' = [samples EXCEPT ![idx] = r.s]
         /\ \/ /\ r.exc = NoExc
               /\ idx' = idx + 1
               /\ trace' = Append(trace, "normalize")
               /\ UNCHANGED <<pc, execLog, exitCode>>
            \/ /\ r.exc # NoExc
               /\ Uncaught
               /\ UNCHANGED <<idx, trace>>
  /\ UNCHANGED <<paramsFile, sampleFile, params, providerArea, paramsCsv, sampleCsv, htmlLog>>

\* lines 349-371
WriteSamples ==
  /\ pc = "loop"
  /\ idx > Len(samples)
  /\ sampleCsv' = [written |-> TRUE, rows |-> [k \in DOMAIN samples |-> SampleRow(samples[k])]]
  /\ execLog' = Append(execLog, Log("INFO", "Model input processing successfully completed."))
  /\ Exit(0)
  /\ trace' = Append(trace, "write_samples")
  /\ UNCHANGED <<paramsFile, sampleFile, params, providerArea, samples, idx, paramsCsv,
                 htmlLog>>

Next ==
  \/ LoadParams
  \/ GetProvider
  \/ JoinSeasonYear
  \/ WriteParams
  \/ LoadSamples
  \/ ProcessSample
  \/ WriteSamples

Spec == Init /\ [][Next]_vars

\* =================================================================== claims
Happened(event) == \E k \in DOMAIN trace : trace[k] = event
Exported == sampleCsv.written
Input(k) == sampleFile.content[k]
Row(k) == sampleCsv.rows[k]
InputRows == DOMAIN sampleFile.content

\* ---- C1 -------------------------------------------------------------------
\* C1: the exported result of a record is non-empty if and only if its tests
\* list holds exactly one test flagged selected_definitive and that test carries
\* a result value; otherwise it is empty, whatever result the input record had.
\* (A flag counts as true when it compares equal to true, as on line 324.)
FlaggedTests(rec) ==
  IF rec.tests.kind # "list" THEN {}
  ELSE {k \in DOMAIN rec.tests.items :
          /\ rec.tests.items[k].kind = "obj"
          /\ rec.tests.items[k].selected_definitive \in {JTrue, JOne}}

HasOneReadableDefinitive(rec) ==
  /\ Cardinality(FlaggedTests(rec)) = 1
  /\ \A k \in FlaggedTests(rec) : rec.tests.items[k].result \notin {Absent, None}

C1_ResultIffOneDefinitive ==
  Exported =>
    \A k \in InputRows : (Row(k).result # Empty) <=> HasOneReadableDefinitive(Input(k))

\* ---- C2 -------------------------------------------------------------------
\* C2: in every exported record latitude and longitude are both empty or both
\* populated.
C2_CoordinatesPaired ==
  Exported =>
    \A k \in InputRows : (Row(k).latitude = Empty) <=> (Row(k).longitude = Empty)

\* ---- C3 -------------------------------------------------------------------
\* C3: no per-record failure is fatal: a run whose batch loaded ends with the
\* sample export and status 0, whatever the shape of the records.
C3_NoRecordFailureFatal ==
  (pc = "exit" /\ Happened("load_samples")) => (Exported /\ exitCode = 0)

\* ---- C4 -------------------------------------------------------------------
\* C4: every batch that loads yields a samples table with one row per input
\* record, in input order, row k being the normalization of record k alone.
RowsMatchInput ==
  /\ Len(sampleCsv.rows) = Len(sampleFile.content)
  /\ \A k \in InputRows : Row(k) = SampleRow(NormalizeSample(Input(k)).s)

C4_OneRowPerRecord ==
  (pc = "exit" /\ Happened("load_samples")) => (Exported /\ RowsMatchInput)

\* C4, restricted to the runs that reach the export: the table written has one
\* row per input record, in input order.
C4_RowsMatchWhenWritten == Exported => RowsMatchInput

\* ---- C6 -------------------------------------------------------------------
\* C6: the exported id is the input's _id when present and empty otherwise, the
\* exported sub_administrative_area_id is the input's _sub_administrative_area._id
\* when that path is readable and empty otherwise, also for a record that
\* carries its own id or sub_administrative_area_id key.
ExpectedId(rec) == IF rec._id \in {Absent, None} THEN Empty ELSE rec._id

ExpectedSubArea(rec) ==
  IF rec._sub_administrative_area.kind = "obj"
     /\ rec._sub_administrative_area._id \notin {Absent, None}
  THEN rec._sub_administrative_area._id
  ELSE Empty

C6_IdAndSubAreaExtraction ==
  Exported =>
    \A k \in InputRows :
      /\ Row(k).id = ExpectedId(Input(k))
      /\ Row(k).sub_administrative_area_id = ExpectedSubArea(Input(k))

\* ---- C7 -------------------------------------------------------------------
\* C7: a run that aborts at a load step (file missing or unparseable) has
\* written an error diagnostic to both the HTML report and the execution log,
\* ends with a non-zero status and has not written the table of that stage.
HtmlHasError == \E k \in DOMAIN htmlLog : htmlLog[k] = Html("h4", "ERROR", "")
LogHasError == \E k \in DOMAIN execLog : execLog[k].level = "ERROR"

ParamsLoadFailed == pc = "exit" /\ paramsFile.status # "ok"
SamplesLoadFailed ==
  pc = "exit" /\ Happened("write_params") /\ sampleFile.status # "ok"

C7_FatalLoadDiagnosedInBoth ==
  /\ ParamsLoadFailed =>
       (HtmlHasError /\ LogHasError /\ exitCode # 0 /\ ~paramsCsv.written)
  /\ SamplesLoadFailed =>
       (HtmlHasError /\ LogHasError /\ exitCode # 0 /\ ~sampleCsv.written)

\* ---- C8 -------------------------------------------------------------------
\* C8: the run ends with status 0 only after both tables were written; with the
\* parameters file missing it ends with status 1 and neither table written; with
\* the sample file missing it ends with status 1 and no samples table written.
C8_ExitContract ==
  /\ (pc = "exit" /\ exitCode = 0) => (paramsCsv.written /\ sampleCsv.written)
  /\ paramsFile.status = "missing" =>
       /\ ~paramsCsv.written
       /\ ~sampleCsv.written
       /\ pc = "exit" => exitCode = 1
  /\ sampleFile.status = "missing" =>
       /\ ~sampleCsv.written
       /\ pc = "exit" => exitCode = 1

C8_Witness_Success == pc = "exit" /\ exitCode = 0 /\ paramsCsv.written /\ sampleCsv.written

\* ---- C5 -------------------------------------------------------------------
DateIn(k) == Input(k).date_harvested
DateOut(k) == Row(k).date_harvested

\* the value the table shows for a date_harvested the loop left alone
Untouched(d) == IF d.kind \in {"absent", "null"} THEN Text(<<>>) ELSE d

\* exactly YYYY-MM-DDTHH:MM:SS.ffffffZ
IsCanonicalForm(s) ==
  /\ Len(s) = 27
  /\ \A k \in 1..27 :
       IF k \in {5, 8} THEN s[k] = "-"
       ELSE IF k = 11 THEN s[k] = "T"
       ELSE IF k \in {14, 17} THEN s[k] = ":"
       ELSE IF k = 20 THEN s[k] = "."
       ELSE IF k = 27 THEN s[k] = "Z"
       ELSE IsDigit(s[k])

\* C5 as stated: a text of the form YYYY-MM-DDTHH:MM:SS.ffffffZ is exported as
\* its YYYY-MM-DD part, and every other text, like an absent or non-text value,
\* is exported unchanged.
C5_OnlyCanonicalRewritten ==
  Exported =>
    \A k \in InputRows :
      IF DateIn(k).kind = "str" /\ IsCanonicalForm(DateIn(k).chars)
      THEN DateOut(k) = Text(SubSeq(DateIn(k).chars, 1, 10))
      ELSE DateOut(k) = Untouched(DateIn(k))

\* the position of the first character of cs at or after from, 0 if there is none
FirstAt(s, from, cs) ==
  IF \E k \in from..Len(s) : s[k] \in cs
  THEN CHOOSE k \in from..Len(s) : s[k] \in cs /\ \A j \in from..(k - 1) : s[j] \notin cs
  ELSE 0

IsNumber(f) == Len(f) \in 1..2 /\ \A k \in DOMAIN f : IsDigit(f[k])
Value(f) == NumVal(f, 1, Len(f))
IsBlankDigit(f) == Len(f) = 2 /\ f[1] = " " /\ IsDigit(f[2]) /\ f[2] # "0"
ZeroPadded(f) ==
  IF Len(f) = 1 THEN <<"0", f[1]>> ELSE IF f[1] = " " THEN <<"0", f[2]>> ELSE f

\* the text cut at its separators: year-month-day T hour:minute:second.fraction Z
DateFields(s) ==
  LET d1 == FirstAt(s, 1, {"-"})
      d2 == FirstAt(s, d1 + 1, {"-"})
      t == FirstAt(s, d2 + 1, {"T", "t"})
      c1 == FirstAt(s, t + 1, {":"})
      c2 == FirstAt(s, c1 + 1, {":"})
      dot == FirstAt(s, c2 + 1, {"."})
  IN  [cut |-> d1 # 0 /\ d2 # 0 /\ t # 0 /\ c1 # 0 /\ c2 # 0 /\ dot # 0
                 /\ dot < Len(s) /\ s[Len(s)] \in {"Z", "z"},
       year |-> SubSeq(s, 1, d1 - 1), month |-> SubSeq(s, d1 + 1, d2 - 1),
       day |-> SubSeq(s, d2 + 1, t - 1), hour |-> SubSeq(s, t + 1, c1 - 1),
       minute |-> SubSeq(s, c1 + 1, c2 - 1), second |-> SubSeq(s, c2 + 1, dot - 1),
       fraction |-> SubSeq(s, dot + 1, Len(s) - 1)]

\* a four-digit year from 1, a month, a day of that month, a time of day and one
\* to six fractional digits; month, day, hour, minute and second of one or two
\* digits, the day possibly blank-padded
IsAcceptedDate(s) ==
  LET f == DateFields(s)
  IN  /\ f.cut
      /\ Len(f.year) = 4 /\ (\A k \in 1..4 : IsDigit(f.year[k])) /\ Value(f.year) >= 1
      /\ IsNumber(f.month) /\ Value(f.month) \in 1..12
      /\ \/ IsNumber(f.day) /\ Value(f.day) \in 1..DaysInMonth(Value(f.year), Value(f.month))
         \/ IsBlankDigit(f.day)
      /\ IsNumber(f.hour) /\ Value(f.hour) \in 0..23
      /\ IsNumber(f.minute) /\ Value(f.minute) \in 0..59
      /\ IsNumber(f.second) /\ Value(f.second) \in 0..59
      /\ Len(f.fraction) \in 1..6 /\ \A k \in DOMAIN f.fraction : IsDigit(f.fraction[k])

PaddedDate(s) ==
  LET f == DateFields(s)
  IN  f.year \o <<"-">> \o ZeroPadded(f.month) \o <<"-">> \o ZeroPadded(f.day)

\* C5, amended: a text that strptime accepts under '%Y-%m-%dT%H:%M:%S.%fZ'
\* (fields of one or two digits, one to six fractional digits, T and Z in either
\* case, a valid date and time) is exported as that date, zero-padded
\* YYYY-MM-DD, which is the first ten characters of a text in the padded form;
\* every other text and every absent or non-text value is exported unchanged;
\* reformatting the exported text again changes nothing.
C5_AcceptedDatesRewritten ==
  Exported =>
    \A k \in InputRows :
      /\ IF DateIn(k).kind = "str" /\ IsAcceptedDate(DateIn(k).chars)
         THEN DateOut(k) = Text(PaddedDate(DateIn(k).chars))
         ELSE DateOut(k) = Untouched(DateIn(k))
      /\ (DateIn(k).kind = "str" /\ IsCanonicalForm(DateIn(k).chars)
            /\ IsAcceptedDate(DateIn(k).chars))
           => DateOut(k) = Text(SubSeq(DateIn(k).chars, 1, 10))
      /\ DateOut(k).kind = "str" => ReformatDate(DateOut(k).chars) = DateOut(k).chars

\* a text with three fractional digits and unpadded fields was rewritten
C5_Witness_LenientRewritten ==
  /\ Exported
  /\ \E k \in InputRows :
       /\ DateIn(k).kind = "str"
       /\ ~IsCanonicalForm(DateIn(k).chars)
       /\ IsAcceptedDate(DateIn(k).chars)
       /\ DateOut(k).chars # DateIn(k).chars
       /\ Len(DateOut(k).chars) = 10

\* ---- C9 -------------------------------------------------------------------
ParamsIn == paramsFile.content

RECURSIVE JoinedPrefix(_, _)
\* the first n texts, each after the first preceded by a comma and a blank
JoinedPrefix(items, n) ==
  IF n = 0 THEN <<>>
  ELSE IF n = 1 THEN items[1].chars
  ELSE JoinedPrefix(items, n - 1) \o <<",", " ">> \o items[n].chars

IsListOfTexts(sy) == sy.kind = "list" /\ \A k \in DOMAIN sy.items : sy.items[k].kind = "str"

C10_SamplesLoadedBeforeTransform ==
  (Happened("del_provider") \/ Happened("join_season_year") \/ paramsCsv.written)
    => Happened("load_samples")

Rank(event) ==
  CASE event = "load_params" -> 1
    [] event = "del_provider" -> 2
    [] event = "join_season_year" -> 3
    [] event = "write_params" -> 4
    [] event = "load_samples" -> 5
    [] event = "normalize" -> 6
    [] event = "write_samples" -> 7

\* C10, amended: the run is staged. The parameters are loaded, then mutated,
\* then written, and only then is the sample batch loaded, normalized and
\* written; so a run whose sample batch fails to load has written the parameters
\* table and has normalized no sample and written no samples table.
C10_StagedOrder ==
  /\ \A i, j \in DOMAIN trace :
       i < j => /\ Rank(trace[i]) <= Rank(trace[j])
                /\ Rank(trace[i]) = Rank(trace[j]) => trace[i] = "normalize"
  /\ \A k \in DOMAIN trace : k <= 5 => Rank(trace[k]) = k
  /\ paramsCsv.written <=> Happened("write_params")
  /\ sampleCsv.written <=> Happened("write_samples")
  /\ sampleFile.status # "ok" =>
       /\ ~Happened("load_samples") /\ ~Happened("normalize") /\ ~sampleCsv.written
       /\ samples = <<>>
       /\ (pc = "exit" /\ exitCode = 1 /\ Happened("join_season_year")) => paramsCsv.written

\* the sample file was missing and the parameters table had been written
C10_Witness_ParamsWrittenSamplesMissing ==
  /\ pc = "exit"
  /\ sampleFile.status = "missing"
  /\ paramsCsv.written
  /\ ~sampleCsv.written

====
